---- MODULE Spec2Model ----
(***************************************************************************)
(* A model of the sample bar chart visual (src/src/barChart.ts): the view  *)
(* model transform visualTransform, and the BarChart instance with its     *)
(* update cycle, its bars, its selection highlighting and the host's       *)
(* selection manager it talks to.                                          *)
(*                                                                         *)
(* Encoding of JavaScript values:                                          *)
(*   - an optional value is a sequence of length 0 or 1: None is a missing *)
(*     (undefined) value, Some(x) a present one, so that a present empty   *)
(*     list Some(<<>>) differs from a missing list None;                   *)
(*   - arrays are sequences, indexed from 1 where the code indexes from 0; *)
(*   - opacities are in hundredths (1 is 100, 0.4 is 40);                  *)
(*   - a selection token is the set of data identities it covers, and the  *)
(*     host's containment test a.includes(b) is b \subseteq a.             *)
(***************************************************************************)
EXTENDS Integers, Sequences, FiniteSets, TLC

\* Bounds of the model.
MaxLen == 2          \* longest category / value column
MaxPending == 1      \* most host continuations in flight
MaxOverlap == 2      \* most host continuations in flight when all resolve

None == <<>>
Some(x) == <<x>>

\* `${x}`: a template literal over a string, or over undefined.
String(x) == IF x = None THEN "undefined" ELSE x[1]

\* a[i] in JavaScript: undefined past the end of the array.
At(a, i) == IF i \in DOMAIN a THEN Some(a[i]) ELSE None

Max(a, b) == IF a >= b THEN a ELSE b
Min(a, b) == IF a <= b THEN a ELSE b

NullColor == "<null>"
\* A geometry attribute is Some(n), or NaN when computed from undefined.
NaN == <<>>

specialValsEnum == [coffee |-> 0, warning |-> 1, musicalNote |-> 2]

defaultSettings ==
  [ enableAxis |-> [ show |-> FALSE, fill |-> "#000000" ],
    generalView |->
      [ opacity |-> 100, showBugBashData |-> FALSE, showHelpLink |-> FALSE,
        helpLinkColor |-> "#80B0E0", specialEnumeration |-> specialValsEnum.coffee ],
    testAnalyticsProperty |->
      [ show |-> FALSE, displayName |-> "Analytics Instance", opacity |-> 100,
        showHelpLink |-> FALSE, helpLinkColor |-> "#80B0E0",
        specialEnumeration |-> specialValsEnum.coffee ],
    CardWithManyPropertiesAnalytics |->
      [ show |-> FALSE, displayName |-> "Analytics Instance",
        unboundIntegerProperty |-> 10, boundIntegerProperty |-> 20,
        unboundNumericProperty |-> "10.5", boundNumericProperty |-> "20.5",
        booleanProperty |-> FALSE, textProperty |-> "What is your name?",
        specialEnumeration |-> specialValsEnum.coffee,
        colorProperty |-> "#8800FF", nullableColorProperty |-> "#00FF88",
        formattingLableDisplayUnitsProperty |-> 0,
        formattingAlignmentProperty |-> "right",
        formattingFontSizeProperty |-> 10 ],
    CardWithManyPropertiesFormatting |->
      [ show |-> FALSE, displayName |-> "Formatting Instance",
        unboundIntegerProperty |-> 10, boundIntegerProperty |-> 20,
        unboundNumericProperty |-> "10.5", boundNumericProperty |-> "20.5",
        booleanProperty |-> FALSE, textProperty |-> "What is your quest?",
        specialEnumeration |-> specialValsEnum.coffee,
        colorProperty |-> "#8800FF", nullableColorProperty |-> "#00FF88",
        formattingLableDisplayUnitsProperty |-> 0,
        formattingAlignmentProperty |-> "right",
        formattingFontSizeProperty |-> 10 ] ]

\* The view model visualTransform starts from: settings is the empty object.
EmptySettings == [ f \in {} |-> FALSE ]
EmptyViewModel ==
  [ threw |-> FALSE, dataPoints |-> <<>>, dataMax |-> 0, settings |-> EmptySettings ]

\* A TypeError raised while reading a property of undefined.
Thrown ==
  [ threw |-> TRUE, dataPoints |-> <<>>, dataMax |-> 0, settings |-> EmptySettings ]

(***************************************************************************)
(* The host: its colour palette and whether it allows interactions.        *)
(***************************************************************************)
VARIABLES
  host,      \* options.host of the constructor: colour palette, allowInteractions
  options,   \* the update options handed to visualTransform
  vm         \* the view model visualTransform returned for them

\* colorPalette.getColor(key).value: the palette's colour for a key.
getColor(key) == "#palette-" \o key

\* host.createSelectionIdBuilder().withCategory(category, i).createSelectionId():
\* the token of row i covers the data identity of that row of the column.
createSelectionId(category, i) == { String(At(category.values, i)) }

\* objectEnumerationUtility.getValue: the host's override of a property of an
\* object when there is one, the default otherwise.
getValue(objects, objectName, propertyName, defaultValue) ==
  IF objects # None
     /\ objectName \in DOMAIN objects[1]
     /\ propertyName \in DOMAIN objects[1][objectName]
  THEN objects[1][objectName][propertyName]
  ELSE defaultValue

\* objectEnumerationUtility.getCategoricalObjectValue: the override of a
\* property carried by row index of the category column, the default otherwise.
getCategoricalObjectValue(category, index, objectName, propertyName, defaultValue) ==
  IF category.objects # None
     /\ At(category.objects[1], index) # None
     /\ At(category.objects[1], index)[1] # None
     /\ objectName \in DOMAIN category.objects[1][index][1]
     /\ propertyName \in DOMAIN category.objects[1][index][1][objectName]
  THEN category.objects[1][index][1][objectName][propertyName]
  ELSE defaultValue

\* A colour that is the palette's whatever the row's override or the contrast.
getColumnColorFromPalette(category, index, colorPalette) ==
  "#palette-" \o String(At(category.values, index))

getColumnColorByIndex(category, index, colorPalette) ==
  IF colorPalette.isHighContrast
  THEN colorPalette.background
  ELSE LET defaultColor ==
             [ solid |-> [ color |-> getColor(String(At(category.values, index))) ] ]
       IN  getCategoricalObjectValue(category, index, "colorSelector", "fill",
                                     defaultColor).solid.color

getColumnStrokeColor(colorPalette) ==
  IF colorPalette.isHighContrast THEN colorPalette.foreground ELSE NullColor

getColumnStrokeWidth(isHighContrast) == IF isHighContrast THEN 2 ELSE 0

\* An axis fill that follows the user's override in high-contrast mode too.
getAxisTextFillColorOfUser(objects, colorPalette, defaultColor) ==
  getValue(objects, "enableAxis", "fill", [ solid |-> [ color |-> defaultColor ] ]).solid.color

getAxisTextFillColor(objects, colorPalette, defaultColor) ==
  IF colorPalette.isHighContrast
  THEN colorPalette.foreground
  ELSE getValue(objects, "enableAxis", "fill",
                [ solid |-> [ color |-> defaultColor ] ]).solid.color

\* The settings visualTransform resolves from the host's objects.
barChartSettingsOf(objects, colorPalette, strokeColor) ==
  [
    enableAxis |->
      [
        show |-> getValue(objects, "enableAxis", "show",
            defaultSettings.enableAxis.show),
        fill |-> getAxisTextFillColor(objects, colorPalette, defaultSettings.enableAxis.fill) ],
    generalView |->
      [
        opacity |-> getValue(objects, "generalView", "opacity",
            defaultSettings.generalView.opacity),
        showBugBashData |-> getValue(objects, "generalView", "showBugBashData",
            defaultSettings.generalView.showBugBashData),
        showHelpLink |-> getValue(objects, "generalView", "showHelpLink",
            defaultSettings.generalView.showHelpLink),
        helpLinkColor |-> strokeColor,
        specialEnumeration |-> getValue(objects, "generalView", "specialEnumeration",
            defaultSettings.generalView.specialEnumeration) ],
    testAnalyticsProperty |->
      [
        show |-> getValue(objects, "testAnalyticsProperty", "show",
            defaultSettings.testAnalyticsProperty.show),
        displayName |-> getValue(objects, "testAnalyticsProperty", "displayName",
            defaultSettings.testAnalyticsProperty.displayName),
        opacity |-> getValue(objects, "testAnalyticsProperty", "opacity",
            defaultSettings.testAnalyticsProperty.opacity),
        showHelpLink |-> getValue(objects, "testAnalyticsProperty", "showHelpLink",
            defaultSettings.testAnalyticsProperty.showHelpLink),
        helpLinkColor |-> strokeColor,
        specialEnumeration |-> getValue(objects, "testAnalyticsProperty", "specialEnumeration",
            defaultSettings.testAnalyticsProperty.specialEnumeration) ],
    CardWithManyPropertiesAnalytics |->
      [
        show |-> getValue(objects, "CardWithManyPropertiesAnalytics", "show",
            defaultSettings.CardWithManyPropertiesAnalytics.show),
        displayName |-> getValue(objects, "CardWithManyPropertiesAnalytics", "displayName",
            defaultSettings.CardWithManyPropertiesAnalytics.displayName),
        unboundIntegerProperty |-> getValue(objects, "CardWithManyPropertiesAnalytics", "unboundIntegerProperty",
            defaultSettings.CardWithManyPropertiesAnalytics.unboundIntegerProperty),
        boundIntegerProperty |-> getValue(objects, "CardWithManyPropertiesAnalytics", "boundIntegerProperty",
            defaultSettings.CardWithManyPropertiesAnalytics.boundIntegerProperty),
        unboundNumericProperty |-> getValue(objects, "CardWithManyPropertiesAnalytics", "unboundNumericProperty",
            defaultSettings.CardWithManyPropertiesAnalytics.unboundNumericProperty),
        boundNumericProperty |-> getValue(objects, "CardWithManyPropertiesAnalytics", "boundNumericProperty",
            defaultSettings.CardWithManyPropertiesAnalytics.boundNumericProperty),
        booleanProperty |-> getValue(objects, "CardWithManyPropertiesAnalytics", "booleanProperty",
            defaultSettings.CardWithManyPropertiesAnalytics.booleanProperty),
        textProperty |-> getValue(objects, "CardWithManyPropertiesAnalytics", "textProperty",
            defaultSettings.CardWithManyPropertiesAnalytics.textProperty),
        specialEnumeration |-> getValue(objects, "CardWithManyPropertiesAnalytics", "specialEnumeration",
            defaultSettings.testAnalyticsProperty.specialEnumeration),
        colorProperty |-> getValue(objects, "CardWithManyPropertiesAnalytics", "colorProperty",
            defaultSettings.CardWithManyPropertiesAnalytics.colorProperty),
        nullableColorProperty |-> getValue(objects, "CardWithManyPropertiesAnalytics", "nullableColorProperty",
            defaultSettings.CardWithManyPropertiesAnalytics.nullableColorProperty),
        formattingLableDisplayUnitsProperty |-> getValue(objects, "CardWithManyPropertiesAnalytics", "formattingLableDisplayUnitsProperty",
            defaultSettings.CardWithManyPropertiesAnalytics.formattingLableDisplayUnitsProperty),
        formattingAlignmentProperty |-> getValue(objects, "CardWithManyPropertiesAnalytics", "formattingAlignmentProperty",
            defaultSettings.CardWithManyPropertiesAnalytics.formattingAlignmentProperty),
        formattingFontSizeProperty |-> getValue(objects, "CardWithManyPropertiesAnalytics", "formattingFontSizeProperty",
            defaultSettings.CardWithManyPropertiesAnalytics.formattingFontSizeProperty) ],
    CardWithManyPropertiesFormatting |->
      [
        show |-> getValue(objects, "CardWithManyPropertiesFormatting", "show",
            defaultSettings.CardWithManyPropertiesFormatting.show),
        displayName |-> getValue(objects, "CardWithManyPropertiesFormatting", "displayName",
            defaultSettings.CardWithManyPropertiesFormatting.displayName),
        unboundIntegerProperty |-> getValue(objects, "CardWithManyPropertiesFormatting", "unboundIntegerProperty",
            defaultSettings.CardWithManyPropertiesFormatting.unboundIntegerProperty),
        boundIntegerProperty |-> getValue(objects, "CardWithManyPropertiesFormatting", "boundIntegerProperty",
            defaultSettings.CardWithManyPropertiesFormatting.boundIntegerProperty),
        unboundNumericProperty |-> getValue(objects, "CardWithManyPropertiesFormatting", "unboundNumericProperty",
            defaultSettings.CardWithManyPropertiesFormatting.unboundNumericProperty),
        boundNumericProperty |-> getValue(objects, "CardWithManyPropertiesFormatting", "boundNumericProperty",
            defaultSettings.CardWithManyPropertiesFormatting.boundNumericProperty),
        booleanProperty |-> getValue(objects, "CardWithManyPropertiesFormatting", "booleanProperty",
            defaultSettings.CardWithManyPropertiesFormatting.booleanProperty),
        textProperty |-> getValue(objects, "CardWithManyPropertiesFormatting", "textProperty",
            defaultSettings.CardWithManyPropertiesFormatting.textProperty),
        specialEnumeration |-> getValue(objects, "CardWithManyPropertiesFormatting", "specialEnumeration",
            defaultSettings.testAnalyticsProperty.specialEnumeration),
        colorProperty |-> getValue(objects, "CardWithManyPropertiesFormatting", "colorProperty",
            defaultSettings.CardWithManyPropertiesFormatting.colorProperty),
        nullableColorProperty |-> getValue(objects, "CardWithManyPropertiesFormatting", "nullableColorProperty",
            defaultSettings.CardWithManyPropertiesFormatting.nullableColorProperty),
        formattingLableDisplayUnitsProperty |-> getValue(objects, "CardWithManyPropertiesFormatting", "formattingLableDisplayUnitsProperty",
            defaultSettings.CardWithManyPropertiesFormatting.formattingLableDisplayUnitsProperty),
        formattingAlignmentProperty |-> getValue(objects, "CardWithManyPropertiesFormatting", "formattingAlignmentProperty",
            defaultSettings.CardWithManyPropertiesFormatting.formattingAlignmentProperty),
        formattingFontSizeProperty |-> getValue(objects, "CardWithManyPropertiesFormatting", "formattingFontSizeProperty",
            defaultSettings.CardWithManyPropertiesFormatting.formattingFontSizeProperty) ] ]

\* A loop bounded by the category column alone.
barChartDataPointsByCategory(category, dataValue, colorPalette, strokeColor, strokeWidth) ==
  [ i \in 1..Len(category.values) |->
      [ color |-> "#palette-" \o category.values[i],
        strokeColor |-> strokeColor,
        strokeWidth |-> strokeWidth,
        selectionId |-> { category.values[i] },
        value |-> IF i <= Len(dataValue.values) THEN << dataValue.values[i] >> ELSE <<>>,
        category |-> category.values[i] ] ]

\* The data points of the loop over the longer of the two columns.
barChartDataPoints(category, dataValue, colorPalette, strokeColor, strokeWidth) ==
  LET len == Max(Len(category.values), Len(dataValue.values))
  IN  [ i \in 1..len |->
          [ color |-> getColumnColorByIndex(category, i, colorPalette),
            strokeColor |-> strokeColor,
            strokeWidth |-> strokeWidth,
            selectionId |-> createSelectionId(category, i),
            value |-> At(dataValue.values, i),
            category |-> String(At(category.values, i)) ] ]

\* A guard that takes a missing value array for a present one.
noDataViewButValues(dataViews) ==
  IF dataViews = None THEN "return"
  ELSE IF At(dataViews[1], 1) = None THEN "return"
  ELSE IF dataViews[1][1].categorical = None THEN "return"
  ELSE IF dataViews[1][1].categorical[1].categories = None THEN "return"
  ELSE IF At(dataViews[1][1].categorical[1].categories[1], 1) = None THEN "raise"
  ELSE IF dataViews[1][1].categorical[1].categories[1][1].source = None THEN "return"
  ELSE "pass"

\* The guard of visualTransform: "return" the empty view model, "raise" a
\* TypeError (categories[0].source read of undefined), or "pass".
noDataView(dataViews) ==
  IF dataViews = None THEN "return"
  ELSE IF At(dataViews[1], 1) = None THEN "return"
  ELSE IF dataViews[1][1].categorical = None THEN "return"
  ELSE IF dataViews[1][1].categorical[1].categories = None THEN "return"
  ELSE IF At(dataViews[1][1].categorical[1].categories[1], 1) = None THEN "raise"
  ELSE IF dataViews[1][1].categorical[1].categories[1][1].source = None THEN "return"
  ELSE IF dataViews[1][1].categorical[1].values = None THEN "return"
  ELSE "pass"

visualTransform(opts, h) ==
  LET dataViews == opts.dataViews
      guard == noDataView(dataViews)
  IN
  IF guard = "return" THEN EmptyViewModel
  ELSE IF guard = "raise" THEN Thrown
  ELSE
    LET categorical == dataViews[1][1].categorical[1]
        category == categorical.categories[1][1]
        \* categorical.values[0]: undefined when the array is empty; reading
        \* an element of a missing array raises
        dataValue == IF categorical.values = None THEN None
                     ELSE At(categorical.values[1], 1)
        colorPalette == h.colorPalette
        objects == dataViews[1][1].metadata.objects
        strokeColor == getColumnStrokeColor(colorPalette)
        strokeWidth == getColumnStrokeWidth(colorPalette.isHighContrast)
    IN  \* dataValue.values: reading .values of undefined raises
        IF dataValue = None THEN Thrown
        ELSE [ threw |-> FALSE,
               dataPoints |-> barChartDataPoints(category, dataValue[1], colorPalette,
                                                 strokeColor, strokeWidth),
               dataMax |-> dataValue[1].maxLocal,
               settings |-> barChartSettingsOf(objects, colorPalette, strokeColor) ]

(***************************************************************************)
(* Inputs: the hosts and the update options the model draws from.          *)
(***************************************************************************)
CatVals == { "a", "b" }
Vals == { 2, 5 }
Seqs(S, n) == UNION { [1..k -> S] : k \in 0..n }

Hosts ==
  { [ colorPalette |-> [ isHighContrast |-> hc, foreground |-> "#fg",
                         background |-> "#bg" ],
      allowInteractions |-> ai ] : hc \in BOOLEAN, ai \in BOOLEAN }

Viewport == [ width |-> 200, height |-> 200 ]

\* Values a user may set in the property pane, one per field, each different
\* from the compiled-in default of the field.
userSettings ==
  [ enableAxis |-> [ show |-> TRUE, fill |-> [ solid |-> [ color |-> "#userAxis" ] ] ],
    generalView |->
      [ opacity |-> 50, showBugBashData |-> TRUE, showHelpLink |-> TRUE,
        helpLinkColor |-> "#userLink", specialEnumeration |-> specialValsEnum.warning ],
    testAnalyticsProperty |->
      [ show |-> TRUE, displayName |-> "user", opacity |-> 50,
        showHelpLink |-> TRUE, helpLinkColor |-> "#userLink",
        specialEnumeration |-> specialValsEnum.warning ],
    CardWithManyPropertiesAnalytics |->
      [ show |-> TRUE, displayName |-> "user",
        unboundIntegerProperty |-> 11, boundIntegerProperty |-> 21,
        unboundNumericProperty |-> "11.5", boundNumericProperty |-> "21.5",
        booleanProperty |-> TRUE, textProperty |-> "user",
        specialEnumeration |-> specialValsEnum.musicalNote,
        colorProperty |-> "#user1", nullableColorProperty |-> "#user2",
        formattingLableDisplayUnitsProperty |-> 1000,
        formattingAlignmentProperty |-> "left",
        formattingFontSizeProperty |-> 12 ],
    CardWithManyPropertiesFormatting |->
      [ show |-> TRUE, displayName |-> "user",
        unboundIntegerProperty |-> 11, boundIntegerProperty |-> 21,
        unboundNumericProperty |-> "11.5", boundNumericProperty |-> "21.5",
        booleanProperty |-> TRUE, textProperty |-> "user",
        specialEnumeration |-> specialValsEnum.musicalNote,
        colorProperty |-> "#user1", nullableColorProperty |-> "#user2",
        formattingLableDisplayUnitsProperty |-> 1000,
        formattingAlignmentProperty |-> "left",
        formattingFontSizeProperty |-> 12 ] ]

\* dataView.metadata.objects: missing, one field of one object overridden, or
\* every field of every object overridden.
ObjectsInputs ==
  { None, Some(userSettings) }
  \cup { Some(s :> (f :> userSettings[s][f])) :
           s \in { "enableAxis" }, f \in DOMAIN userSettings.enableAxis }
  \cup { Some(s :> (f :> userSettings[s][f])) :
           s \in { "generalView" }, f \in DOMAIN userSettings.generalView }
  \cup { Some(s :> (f :> userSettings[s][f])) :
           s \in { "testAnalyticsProperty" },
           f \in DOMAIN userSettings.testAnalyticsProperty }
  \cup { Some(s :> (f :> userSettings[s][f])) :
           s \in { "CardWithManyPropertiesAnalytics", "CardWithManyPropertiesFormatting" },
           f \in DOMAIN userSettings.CardWithManyPropertiesAnalytics }

\* category.objects: missing, or per row a colorSelector fill or nothing.
userFill == "#userFill"
RowObjects ==
  { None, Some([ colorSelector |-> [ fill |-> [ solid |-> [ color |-> userFill ] ] ] ]) }
CategoryObjects(n) == { None } \cup { Some(f) : f \in [1..n -> RowObjects] }

CategoryColumn(values, objects, hasSource) ==
  [ source |-> IF hasSource THEN Some("Category") ELSE None,
    values |-> values, objects |-> objects ]
ValueColumn(values) == [ values |-> values, maxLocal |-> 5 ]
DataView(categorical, objects) ==
  [ categorical |-> categorical, metadata |-> [ objects |-> objects ] ]
Options(dataViews) == [ dataViews |-> dataViews, viewport |-> Viewport ]

OkOptions(cats, catObjects, vals, objects) ==
  Options(Some(<< DataView(
    Some([ categories |-> Some(<< CategoryColumn(cats, catObjects, TRUE) >>),
           values |-> Some(<< ValueColumn(vals) >>) ]), objects) >>))

\* Options that carry no data view, no categorical part, no category array or
\* no value array.
NoDataViews == Options(None)
NoFirstDataView == Options(Some(<<>>))
NoCategorical == Options(Some(<< DataView(None, None) >>))
NoCategories ==
  Options(Some(<< DataView(
    Some([ categories |-> None, values |-> Some(<< ValueColumn(<<2>>) >>) ]), None) >>))
NoValues ==
  Options(Some(<< DataView(
    Some([ categories |-> Some(<< CategoryColumn(<<"a">>, None, TRUE) >>),
           values |-> None ]), None) >>))
MissingDataOptions ==
  { NoDataViews, NoFirstDataView, NoCategorical, NoCategories, NoValues }

\* Options whose category column has no source, or whose category or value
\* array is present and empty.
NoSource ==
  Options(Some(<< DataView(
    Some([ categories |-> Some(<< CategoryColumn(<<"a">>, None, FALSE) >>),
           values |-> Some(<< ValueColumn(<<2>>) >>) ]), None) >>))
EmptyCategories ==
  Options(Some(<< DataView(
    Some([ categories |-> Some(<<>>), values |-> Some(<< ValueColumn(<<2>>) >>) ]),
    None) >>))
EmptyValues ==
  Options(Some(<< DataView(
    Some([ categories |-> Some(<< CategoryColumn(<<"a">>, None, TRUE) >>),
           values |-> Some(<<>>) ]), None) >>))

\* Options that carry a category column with its source and a value column.
HasColumns(o) ==
  /\ o.dataViews # None
  /\ Len(o.dataViews[1]) > 0
  /\ o.dataViews[1][1].categorical # None
  /\ o.dataViews[1][1].categorical[1].categories # None
  /\ Len(o.dataViews[1][1].categorical[1].categories[1]) > 0
  /\ o.dataViews[1][1].categorical[1].categories[1][1].source # None
  /\ o.dataViews[1][1].categorical[1].values # None
  /\ Len(o.dataViews[1][1].categorical[1].values[1]) > 0
CategoryOf(o) == o.dataViews[1][1].categorical[1].categories[1][1]
ValuesOf(o) == o.dataViews[1][1].categorical[1].values[1][1]
ObjectsOf(o) == o.dataViews[1][1].metadata.objects

(***************************************************************************)
(* visualTransform as a function of its inputs: the options and the host   *)
(* are drawn, and the transform is applied to them once.                   *)
(***************************************************************************)
NotRun == [ threw |-> FALSE, dataPoints |-> <<>>, dataMax |-> 0 - 1,
            settings |-> EmptySettings ]

TransformInit ==
  /\ host \in Hosts
  /\ \/ options \in MissingDataOptions
     \/ options \in { NoSource, EmptyCategories, EmptyValues }
     \/ \E c \in Seqs(CatVals, MaxLen), v \in Seqs(Vals, MaxLen), o \in ObjectsInputs :
          \E co \in CategoryObjects(Len(c)) : options = OkOptions(c, co, v, o)
  /\ vm = NotRun

Transform ==
  /\ vm = NotRun
  /\ vm' = visualTransform(options, host)
  /\ UNCHANGED << host, options >>

(***************************************************************************)
(* The BarChart instance, the DOM it renders and the host's selection      *)
(* manager.                                                                *)
(***************************************************************************)
VARIABLES
  barDataPoints,     \* this.barDataPoints: None until the first update sets it
  barChartSettings,  \* this.barChartSettings: None until the first update sets it
  barSelection,      \* this.barSelection: None, or Some(n), the first n bars
  bars,              \* the rect.bar children of the bar container, in order
  chrome,            \* the svg root, the axis group, the help link, the table
  svgHandlers,       \* whether the svg's click and contextmenu handlers are set
  selectionIds,      \* selectionManager.getSelectionIds(): the host's selection
  pending,           \* select / clear calls whose continuation has not run
  last               \* the last event handled, and what it did

vars == << host, options, vm, barDataPoints, barChartSettings, barSelection, bars,
           chrome, svgHandlers, selectionIds, pending, last >>
visual == << barDataPoints, barChartSettings, barSelection, bars, chrome,
             svgHandlers, selectionIds, pending, last >>

\* BarChart.Config
solidOpacity == 100
transparentOpacity == 40
marginBottom == 25
xAxisFontMultiplier == 4

\* The host's tokens: of one category each, or of all categories.
HostTokens == { {x} : x \in CatVals } \cup { CatVals }
\* The selection sets the host may hold or return: empty, one token, or the
\* tokens of each category.
SelectionSets == { {} } \cup { {t} : t \in HostTokens } \cup { { {x} : x \in CatVals } }

\* currentSelectionId.includes(selectionId), the host's containment test.
includes(currentSelectionId, selectionId) == selectionId \subseteq currentSelectionId

\* A membership test that asks every selected id to include the bar's.
isSelectionIdInEveryId(ids, selectionId) ==
  IF ids = None \/ selectionId = None
  THEN FALSE
  ELSE \A currentSelectionId \in ids[1] : includes(currentSelectionId, selectionId[1])

isSelectionIdInArray(ids, selectionId) ==
  IF ids = None \/ selectionId = None
  THEN FALSE
  ELSE \E currentSelectionId \in ids[1] : includes(currentSelectionId, selectionId[1])

\* A synchronisation that takes a missing id list for an empty one.
syncSelectionStateOfAnyIds(selection, ids, nodes) ==
  IF selection = None
  THEN nodes
  ELSE [ i \in DOMAIN nodes |->
           IF i > selection[1] THEN nodes[i]
           ELSE IF ids = None \/ ids = Some({})
           THEN [ nodes[i] EXCEPT !.fillOpacity = None, !.strokeOpacity = None ]
           ELSE LET opacity ==
                      IF \E id \in ids[1] : nodes[i].datum[1].selectionId \subseteq id
                      THEN solidOpacity ELSE transparentOpacity
                IN  [ nodes[i] EXCEPT !.fillOpacity = Some(opacity),
                                      !.strokeOpacity = Some(opacity) ] ]

\* A synchronisation that leaves the bars alone when nothing is selected.
syncSelectionStateIfSelected(selection, ids, nodes) ==
  IF selection = None \/ ids = None \/ ids[1] = {}
  THEN nodes
  ELSE [ i \in DOMAIN nodes |->
           IF i <= selection[1]
           THEN LET opacity ==
                      IF \E id \in ids[1] : nodes[i].datum[1].selectionId \subseteq id
                      THEN solidOpacity ELSE transparentOpacity
                IN  [ nodes[i] EXCEPT !.fillOpacity = Some(opacity),
                                      !.strokeOpacity = Some(opacity) ]
           ELSE nodes[i] ]

\* syncSelectionState(selection, selectionIds) over the nodes of the bar
\* container; the selection holds the first selection[1] of them.
syncSelectionState(selection, ids, nodes) ==
  IF selection = None \/ ids = None
  THEN nodes
  ELSE IF ids[1] = {}
  THEN [ i \in DOMAIN nodes |->
           IF i <= selection[1]
           THEN [ nodes[i] EXCEPT !.fillOpacity = None, !.strokeOpacity = None ]
           ELSE nodes[i] ]
  ELSE [ i \in DOMAIN nodes |->
           IF i <= selection[1]
           THEN LET isSelected ==
                      isSelectionIdInArray(ids, Some(nodes[i].datum[1].selectionId))
                    opacity == IF isSelected THEN solidOpacity ELSE transparentOpacity
                IN  [ nodes[i] EXCEPT !.fillOpacity = Some(opacity),
                                      !.strokeOpacity = Some(opacity) ]
           ELSE nodes[i] ]

\* The domain of the ordinal scale: the categories, each once, in the order
\* of their first occurrence.
xDomain(categories) ==
  LET firsts == { i \in DOMAIN categories :
                    \A j \in 1..(i - 1) : categories[j] # categories[i] }
  IN  [ k \in 1..Cardinality(firsts) |->
          categories[CHOOSE i \in firsts :
                       Cardinality({ j \in firsts : j <= i }) = k] ]

\* xScale(category): the band of the category (the scale library's pixel
\* arithmetic is left out: a position is the index of its band).
xScale(domain, category) == Some(CHOOSE i \in DOMAIN domain : domain[i] = category)

\* yScale(value): linear from [0, dataMax] onto [height, 0]; NaN of undefined.
yScale(value, height, dataMax) ==
  IF value = None THEN NaN ELSE Some(height - (value[1] * height) \div dataMax)

\* A rect the enter selection appended: no attribute, no style, no datum yet.
NewRect ==
  [ datum |-> None, width |-> None, height |-> None, y |-> None, x |-> None,
    fillOpacity |-> None, strokeOpacity |-> None, fill |-> None, stroke |-> None,
    strokeWidth |-> None ]

\* selectAll('.bar').data(dataPoints) and enter().append('rect'): the update
\* selection, node i bound to data point i, new rects past the old nodes.
dataJoin(nodes, dataPoints) ==
  [ i \in DOMAIN dataPoints |->
      IF i <= Len(nodes)
      THEN [ nodes[i] EXCEPT !.datum = Some(dataPoints[i]) ]
      ELSE [ NewRect EXCEPT !.datum = Some(dataPoints[i]) ] ]

\* barSelection.attr({...}).style({...}) over the update selection.
attrAndStyle(selected, viewModel, height, domain) ==
  [ i \in DOMAIN selected |->
      [ selected[i] EXCEPT
          !.width = Some(Len(domain)),
          !.height = IF selected[i].datum[1].value = None THEN NaN
                     ELSE Some(height - yScale(selected[i].datum[1].value,
                                               height, viewModel.dataMax)[1]),
          !.y = yScale(selected[i].datum[1].value, height, viewModel.dataMax),
          !.x = xScale(domain, selected[i].datum[1].category),
          !.fillOpacity = Some(viewModel.settings.generalView.opacity),
          !.strokeOpacity = Some(viewModel.settings.generalView.opacity),
          !.fill = Some(selected[i].datum[1].color),
          !.stroke = IF selected[i].datum[1].strokeColor = NullColor THEN None
                     ELSE Some(selected[i].datum[1].strokeColor),
          !.strokeWidth = Some(selected[i].datum[1].strokeWidth) ] ]

\* A rebuild of the bars that leaves the exit selection in the container.
renderBarsKeepingExit(nodes, viewModel, height, ids, domain) ==
  LET n == Len(viewModel.dataPoints)
      selected == attrAndStyle(dataJoin(nodes, viewModel.dataPoints), viewModel,
                               height, domain)
      exit == SubSeq(nodes, n + 1, Len(nodes))
  IN  syncSelectionState(Some(n), Some(ids), selected \o exit)

\* A rebuild of the bars that does not synchronise the selection state.
renderBarsUnsynced(nodes, viewModel, height, ids, domain) ==
  attrAndStyle(dataJoin(nodes, viewModel.dataPoints), viewModel, height, domain)

\* The bars update leaves: join, enter, attributes and styles, selection
\* state synchronised over the update selection, exit nodes removed.
renderBars(nodes, viewModel, height, ids, domain) ==
  LET n == Len(viewModel.dataPoints)
      selected == attrAndStyle(dataJoin(nodes, viewModel.dataPoints), viewModel,
                               height, domain)
      exit == SubSeq(nodes, n + 1, Len(nodes))
      synced == syncSelectionState(Some(n), Some(ids), selected \o exit)
  IN  SubSeq(synced, 1, n)

\* The svg root, the help link, the axis group and the table after update.
renderChrome(viewModel, viewport, height, domain) ==
  [ svg |-> Some(viewport),
    bugBashHidden |-> ~viewModel.settings.generalView.showBugBashData,
    helpLinkHidden |-> ~viewModel.settings.generalView.showHelpLink,
    helpLinkColor |-> viewModel.settings.generalView.helpLinkColor,
    axisFontSize |-> Some((Min(height, viewport.width) * xAxisFontMultiplier) \div 100),
    axisFill |-> Some(viewModel.settings.enableAxis.fill),
    axisTransform |-> Some(height),
    axisTicks |-> domain,
    bugBashTable |-> Some([ Format |-> viewModel.settings.CardWithManyPropertiesFormatting,
                            Analytics |-> viewModel.settings.CardWithManyPropertiesAnalytics ]) ]

\* What the constructor leaves.
InitialChrome ==
  [ svg |-> None, bugBashHidden |-> FALSE, helpLinkHidden |-> FALSE,
    helpLinkColor |-> NullColor, axisFontSize |-> None, axisFill |-> None,
    axisTransform |-> None, axisTicks |-> <<>>, bugBashTable |-> None ]

\* An event: the handler that ran, whether it raised, the selection ids it
\* synchronised the bars with (None when it did not), and its input (for
\* update: the options, and whether their data is missing).
Event(op, threw, ids, arg) == [ op |-> op, threw |-> threw, ids |-> ids, arg |-> arg ]
NoArg == [ none |-> TRUE ]

constructor ==
  /\ barDataPoints = None
  /\ barChartSettings = None
  /\ barSelection = None
  /\ bars = <<>>
  /\ chrome = InitialChrome
  /\ svgHandlers = FALSE
  /\ selectionIds = {}
  /\ pending = <<>>
  /\ last = Event("constructor", FALSE, None, NoArg)

\* What a right-click inside the svg can hit: the background (the svg and its
\* groups carry no datum), bar i, or tick k of the axis (the axis binds each
\* tick, and the line and the label in it, to its category).
Targets ==
  { [ kind |-> "background", index |-> 0 ] }
    \cup { [ kind |-> "bar", index |-> i ] : i \in DOMAIN bars }
    \cup { [ kind |-> "tick", index |-> k ] : k \in DOMAIN chrome.axisTicks }

\* The positions of the pointer.
Pointers == { [ clientX |-> 10, clientY |-> 20 ], [ clientX |-> 30, clientY |-> 5 ] }

\* dataPoint ? dataPoint.selectionId : {} for the datum of the event's target:
\* the bar's selection id, the empty object for no datum or the empty string,
\* and undefined for the string of a tick, which has no selectionId.
contextMenuSelectionId(target) ==
  IF target.kind = "bar" THEN Some(bars[target.index].datum[1].selectionId)
  ELSE IF target.kind = "tick" /\ chrome.axisTicks[target.index] # "" THEN None
  ELSE Some({})

\* The svg's contextmenu handler: svg.on('contextmenu', ...).
contextmenu(target, mouseEvent) ==
  /\ last' = Event("contextmenu", FALSE, None,
                   [ target |-> target,
                     mouseEvent |-> mouseEvent,
                     showContextMenu |->
                       << [ selectionId |-> contextMenuSelectionId(target),
                            position |-> [ x |-> mouseEvent.clientX,
                                           y |-> mouseEvent.clientY ] ] >> ])
  /\ UNCHANGED << barDataPoints, barChartSettings, barSelection, bars, chrome,
                  svgHandlers, selectionIds, pending >>

\* The object names the format pane asks for.
ObjectNames ==
  { "enableAxis", "colorSelector", "generalView", "testAnalyticsProperty",
    "CardWithManyPropertiesAnalytics", "CardWithManyPropertiesFormatting", "other" }

\* The properties enumerateObjectInstances lists for a settings section.
enumeratedProperties(objectName) ==
  IF objectName = "enableAxis" THEN { "show", "fill" }
  ELSE IF objectName = "generalView"
  THEN { "opacity", "showBugBashData", "showHelpLink", "specialEnumeration" }
  ELSE IF objectName = "testAnalyticsProperty"
  THEN { "show", "displayName", "opacity", "showHelpLink", "specialEnumeration" }
  ELSE { "show", "displayName", "unboundIntegerProperty", "boundIntegerProperty",
         "unboundNumericProperty", "boundNumericProperty", "booleanProperty",
         "textProperty", "specialEnumeration", "colorProperty",
         "nullableColorProperty", "formattingLableDisplayUnitsProperty",
         "formattingAlignmentProperty", "formattingFontSizeProperty" }

\* enumerateObjectInstances(options): whether it raised, and the instances.
enumerateObjectInstances(objectName) ==
  IF objectName = "colorSelector"
  THEN IF barDataPoints = None
       THEN [ threw |-> TRUE, instances |-> <<>> ]
       ELSE [ threw |-> FALSE,
              instances |->
                [ i \in DOMAIN barDataPoints[1] |->
                    [ objectName |-> objectName,
                      displayName |-> barDataPoints[1][i].category,
                      properties |->
                        [ fill |-> [ solid |-> [ color |-> barDataPoints[1][i].color ] ] ],
                      selector |-> Some(barDataPoints[1][i].selectionId) ] ] ]
  ELSE IF objectName = "other"
  THEN [ threw |-> FALSE, instances |-> <<>> ]
  ELSE IF barChartSettings = None
  THEN [ threw |-> TRUE, instances |-> <<>> ]
  ELSE IF objectName \notin DOMAIN barChartSettings[1]
  THEN [ threw |-> TRUE, instances |-> <<>> ]
  ELSE [ threw |-> FALSE,
         instances |->
           << [ objectName |-> objectName,
                properties |-> [ f \in enumeratedProperties(objectName) |->
                                   barChartSettings[1][objectName][f] ],
                selector |-> None ] >> ]

\* A call of enumerateObjectInstances by the host.
enumerate(objectName) ==
  /\ \E result \in { enumerateObjectInstances(objectName) } :
       last' = Event("enumerateObjectInstances", result.threw, None,
                     [ objectName |-> objectName, instances |-> result.instances ])
  /\ UNCHANGED << barDataPoints, barChartSettings, barSelection, bars, chrome,
                  svgHandlers, selectionIds, pending >>

\* Number.prototype.toString of a natural number: its decimal digits.
RECURSIVE toString(_)
toString(n) ==
  LET digits == << "0", "1", "2", "3", "4", "5", "6", "7", "8", "9" >>
  IN  IF n < 10 THEN digits[n + 1] ELSE toString(n \div 10) \o digits[(n % 10) + 1]

\* getLocalizedString(locale, "LanguageKey"): the name of the displayed
\* language, or nothing for a locale without one.
Languages == { None, Some("English") }

\* getTooltipData(value), with the language the lookup returned: whether it
\* raised, and the tooltip items.
getTooltipData(value, language) ==
  IF value.value = None
  THEN \* value.value.toString() of undefined
       [ threw |-> TRUE, items |-> <<>> ]
  ELSE [ threw |-> FALSE,
         items |-> << [ displayName |-> value.category,
                        value |-> toString(value.value[1]),
                        color |-> value.color,
                        header |-> IF language = None THEN None
                                   ELSE Some("displayed language " \o language[1]) ] >> ]

\* The tooltip callback the wrapper calls for the data point of bar i.
tooltip(i, language) ==
  /\ \E result \in { getTooltipData(bars[i].datum[1], language) } :
       last' = Event("tooltip", result.threw, None,
                     [ bar |-> i, items |-> result.items ])
  /\ UNCHANGED << barDataPoints, barChartSettings, barSelection, bars, chrome,
                  svgHandlers, selectionIds, pending >>

\* The update options of the visual's life: missing data, an empty value
\* array, or a category column of distinct categories with a value column as
\* long or one shorter.
ValuesOfLength(n) == [ i \in 1..n |-> IF i % 2 = 1 THEN 2 ELSE 5 ]
UpdateCategories ==
  { c \in Seqs(CatVals, MaxLen) : \A i, j \in DOMAIN c : c[i] = c[j] => i = j }
UpdateValues(c) ==
  { ValuesOfLength(n) : n \in { m \in 0..MaxLen : m - Len(c) \in { 0 - 1, 0 } } }
UpdateObjects == { None, Some(userSettings) }
UpdateOptions ==
  { NoDataViews, NoCategories, NoValues, EmptyValues }
    \cup UNION { { OkOptions(c, None, v, o) : v \in UpdateValues(c), o \in UpdateObjects } :
                   c \in UpdateCategories }

\* let viewModel = visualTransform(options, this.host), for each of the update
\* options and each host.
viewModels == [ o \in UpdateOptions |-> [ h \in Hosts |-> visualTransform(o, h) ] ]

\* update(options)
update(opts) ==
  \E viewModel \in { viewModels[opts][host] } :
  LET settings == viewModel.settings
  IN
  IF viewModel.threw
  THEN \* visualTransform raised: nothing was assigned
       /\ last' = Event("update", TRUE, None,
                         [ missing |-> opts \in MissingDataOptions, options |-> opts ])
       /\ UNCHANGED << barDataPoints, barChartSettings, barSelection, bars, chrome,
                       svgHandlers, selectionIds, pending >>
  ELSE IF "enableAxis" \notin DOMAIN settings
  THEN \* settings.enableAxis.show on the empty settings object raises, after the
       \* fields and the svg size were written
       /\ barChartSettings' = Some(settings)
       /\ barDataPoints' = Some(viewModel.dataPoints)
       /\ chrome' = [ chrome EXCEPT !.svg = Some(opts.viewport) ]
       /\ last' = Event("update", TRUE, None,
                         [ missing |-> opts \in MissingDataOptions, options |-> opts ])
       /\ UNCHANGED << barSelection, bars, svgHandlers, selectionIds, pending >>
  ELSE LET height == IF settings.enableAxis.show
                     THEN opts.viewport.height - marginBottom
                     ELSE opts.viewport.height
       IN  \* xScale = d3.scale.ordinal().domain(dataPoints.map(d => d.category))
           \E domain \in { xDomain([ i \in DOMAIN viewModel.dataPoints |->
                               viewModel.dataPoints[i].category ]) } :
           /\ barChartSettings' = Some(settings)
           /\ barDataPoints' = Some(viewModel.dataPoints)
           /\ chrome' = renderChrome(viewModel, opts.viewport, height, domain)
           /\ bars' = renderBars(bars, viewModel, height, selectionIds, domain)
           /\ barSelection' = Some(Len(viewModel.dataPoints))
           /\ svgHandlers' = TRUE
           /\ last' = Event("update", FALSE, Some(selectionIds),
                             [ missing |-> opts \in MissingDataOptions,
                               options |-> opts ])
           /\ UNCHANGED << selectionIds, pending >>

\* A click handler that lets the event bubble to the svg's click handler.
barClickBubbling(i, ctrlKey) ==
  /\ host.allowInteractions
  /\ pending' = pending \o
                << [ kind |-> "select",
                     selectionId |-> bars[i].datum[1].selectionId,
                     multiSelect |-> ctrlKey, answer |-> None ],
                   [ kind |-> "clear", selectionId |-> {}, multiSelect |-> FALSE,
                     answer |-> None ] >>
  /\ last' = Event("barClick", FALSE, None, [ bar |-> i, ctrlKey |-> ctrlKey ])
  /\ UNCHANGED << barDataPoints, barChartSettings, barSelection, bars, chrome,
                  svgHandlers, selectionIds >>

\* A click handler that highlights the clicked bar before the host answers.
barClickOptimistic(i, ctrlKey) ==
  /\ host.allowInteractions
  /\ pending' = Append(pending,
                       [ kind |-> "select",
                         selectionId |-> bars[i].datum[1].selectionId,
                         multiSelect |-> ctrlKey, answer |-> None ])
  /\ bars' = [ j \in DOMAIN bars |->
                 [ bars[j] EXCEPT
                     !.fillOpacity = Some(IF j = i THEN solidOpacity
                                          ELSE transparentOpacity),
                     !.strokeOpacity = Some(IF j = i THEN solidOpacity
                                            ELSE transparentOpacity) ] ]
  /\ last' = Event("barClick", FALSE, None, [ bar |-> i, ctrlKey |-> ctrlKey ])
  /\ UNCHANGED << barDataPoints, barChartSettings, barSelection, chrome,
                  svgHandlers, selectionIds >>

\* The bar's click handler: barSelection.on('click', ...), on bar i.
barClick(i, ctrlKey) ==
  IF host.allowInteractions
  THEN \* select(d.selectionId, isCtrlPressed).then(...); stopPropagation()
       /\ pending' = Append(pending,
                            [ kind |-> "select",
                              selectionId |-> bars[i].datum[1].selectionId,
                              multiSelect |-> ctrlKey, answer |-> None ])
       /\ last' = Event("barClick", FALSE, None, [ bar |-> i, ctrlKey |-> ctrlKey ])
       /\ UNCHANGED << barDataPoints, barChartSettings, barSelection, bars, chrome,
                       svgHandlers, selectionIds >>
  ELSE \* the event bubbles to the svg's click handler, which does nothing either
       /\ last' = Event("barClick", FALSE, None, [ bar |-> i, ctrlKey |-> ctrlKey ])
       /\ UNCHANGED << barDataPoints, barChartSettings, barSelection, bars, chrome,
                       svgHandlers, selectionIds, pending >>

\* A click handler of the svg that does not ask whether the host allows
\* interactions.
svgClickAlways ==
  /\ pending' = Append(pending,
                       [ kind |-> "clear", selectionId |-> {}, multiSelect |-> FALSE,
                         answer |-> None ])
  /\ last' = Event("svgClick", FALSE, None, NoArg)
  /\ UNCHANGED << barDataPoints, barChartSettings, barSelection, bars, chrome,
                  svgHandlers, selectionIds >>

\* The svg's click handler: svg.on('click', ...), for a click outside any bar.
svgClick ==
  IF host.allowInteractions
  THEN /\ pending' = Append(pending,
                            [ kind |-> "clear", selectionId |-> {},
                              multiSelect |-> FALSE, answer |-> None ])
       /\ last' = Event("svgClick", FALSE, None, NoArg)
       /\ UNCHANGED << barDataPoints, barChartSettings, barSelection, bars, chrome,
                       svgHandlers, selectionIds >>
  ELSE /\ last' = Event("svgClick", FALSE, None, NoArg)
       /\ UNCHANGED << barDataPoints, barChartSettings, barSelection, bars, chrome,
                       svgHandlers, selectionIds, pending >>

Remove(q, k) == SubSeq(q, 1, k - 1) \o SubSeq(q, k + 1, Len(q))

\* The host resolves the select call k with the selection set ids:
\* .then((ids) => this.syncSelectionState(this.barSelection, ids))
\* The host answers the call with ids now, if it has not answered it before.
selectResolved(k, ids) ==
  /\ pending[k].answer \in { None, Some(ids) }
  /\ selectionIds' = IF pending[k].answer = None THEN ids ELSE selectionIds
  /\ bars' = syncSelectionState(barSelection, Some(ids), bars)
  /\ pending' = Remove(pending, k)
  /\ last' = Event("selectResolved", FALSE, Some(ids), NoArg)
  /\ UNCHANGED << barDataPoints, barChartSettings, barSelection, chrome, svgHandlers >>

\* A clear continuation that leaves the bars as they are.
clearResolvedUnapplied(k) ==
  /\ selectionIds' = IF pending[k].answer = None THEN {} ELSE selectionIds
  /\ pending' = Remove(pending, k)
  /\ last' = Event("clearResolved", FALSE, Some({}), NoArg)
  /\ UNCHANGED << barDataPoints, barChartSettings, barSelection, bars, chrome,
                  svgHandlers >>

\* The host resolves the clear call k:
\* .then(() => this.syncSelectionState(this.barSelection, []))
\* The host clears its selection now, if it has not answered the call before.
clearResolved(k) ==
  /\ selectionIds' = IF pending[k].answer = None THEN {} ELSE selectionIds
  /\ bars' = syncSelectionState(barSelection, Some({}), bars)
  /\ pending' = Remove(pending, k)
  /\ last' = Event("clearResolved", FALSE, Some({}), NoArg)
  /\ UNCHANGED << barDataPoints, barChartSettings, barSelection, chrome, svgHandlers >>

\* The host answers the call k, a select with the selection ids and a clear
\* with the empty one: the selection manager holds its answer from then on,
\* and the continuation of the call runs later.
hostAnswers(k, ids) ==
  /\ pending[k].answer = None
  /\ pending[k].kind = "clear" => ids = {}
  /\ pending' = [ pending EXCEPT ![k].answer = Some(ids) ]
  /\ selectionIds' = ids
  /\ last' = Event("hostAnswers", FALSE, None, NoArg)
  /\ UNCHANGED << barDataPoints, barChartSettings, barSelection, bars, chrome,
                  svgHandlers >>

\* The host rejects the call k, or never resolves it: no continuation runs,
\* whatever the host did to its selection (it is ids afterwards).
rejected(k, ids) ==
  /\ selectionIds' = ids
  /\ pending' = Remove(pending, k)
  /\ last' = Event("rejected", FALSE, None, NoArg)
  /\ UNCHANGED << barDataPoints, barChartSettings, barSelection, bars, chrome,
                  svgHandlers >>

\* The callback registered in the constructor with registerOnSelectCallback,
\* fired by the host after it changed the selection to ids.
onSelectCallback(ids) ==
  /\ selectionIds' = ids
  /\ bars' = syncSelectionState(barSelection, Some(ids), bars)
  /\ last' = Event("onSelect", FALSE, Some(ids), NoArg)
  /\ UNCHANGED << barDataPoints, barChartSettings, barSelection, chrome, svgHandlers,
                  pending >>

Init ==
  /\ host \in { h \in Hosts : ~h.colorPalette.isHighContrast }
  /\ options = NoDataViews
  /\ vm = NotRun
  /\ constructor

Update == \E o \in UpdateOptions : update(o)
BarClick ==
  \E i \in DOMAIN bars, ctrlKey \in BOOLEAN :
    Len(pending) < MaxPending /\ barClick(i, ctrlKey)
SvgClick == svgHandlers /\ Len(pending) < MaxPending /\ svgClick
SelectResolved ==
  \E k \in DOMAIN pending, ids \in SelectionSets :
    pending[k].kind = "select" /\ selectResolved(k, ids)
ClearResolved ==
  \E k \in DOMAIN pending : pending[k].kind = "clear" /\ clearResolved(k)
Rejected == \E k \in DOMAIN pending, ids \in SelectionSets : rejected(k, ids)
OnSelectCallback == \E ids \in SelectionSets : onSelectCallback(ids)

Next ==
  \/ Update /\ UNCHANGED << host, options, vm >>
  \/ BarClick /\ UNCHANGED << host, options, vm >>
  \/ SvgClick /\ UNCHANGED << host, options, vm >>
  \/ SelectResolved /\ UNCHANGED << host, options, vm >>
  \/ ClearResolved /\ UNCHANGED << host, options, vm >>
  \/ Rejected /\ UNCHANGED << host, options, vm >>
  \/ OnSelectCallback /\ UNCHANGED << host, options, vm >>

Spec == Init /\ [][Next]_vars

\* The visual clicked and updated (with no data, two bars or one) while up to
\* MaxOverlap calls wait for the host, which answers each call when it is made
\* or later and resolves every one of them, in any order.
OverlappingOptions ==
  { NoDataViews,
    OkOptions(<< "a", "b" >>, None, ValuesOfLength(2), None),
    OkOptions(<< "b" >>, None, ValuesOfLength(1), None) }
UpdateOverlapping == \E o \in OverlappingOptions : update(o)
BarClickOverlapping ==
  \E i \in DOMAIN bars, ctrlKey \in BOOLEAN :
    Len(pending) < MaxOverlap /\ barClick(i, ctrlKey)
SvgClickOverlapping == svgHandlers /\ Len(pending) < MaxOverlap /\ svgClick
HostAnswers == \E k \in DOMAIN pending, ids \in SelectionSets : hostAnswers(k, ids)

NextResolved ==
  \/ UpdateOverlapping /\ UNCHANGED << host, options, vm >>
  \/ BarClickOverlapping /\ UNCHANGED << host, options, vm >>
  \/ SvgClickOverlapping /\ UNCHANGED << host, options, vm >>
  \/ HostAnswers /\ UNCHANGED << host, options, vm >>
  \/ SelectResolved /\ UNCHANGED << host, options, vm >>
  \/ ClearResolved /\ UNCHANGED << host, options, vm >>

SpecResolved == Init /\ [][NextResolved]_vars

\* visualTransform alone, on drawn inputs.
InitTransform == TransformInit /\ constructor
NextTransform == Transform /\ UNCHANGED visual
SpecTransform == InitTransform /\ [][NextTransform]_vars

\* The visual updated, right-clicked, hovered and asked for its object
\* instances:
\* options and vm are the options of the latest update and the view model
\* visualTransform made of them.
UpdateLatest ==
  \E o \in UpdateOptions :
    update(o) /\ options' = o /\ vm' = viewModels[o][host] /\ UNCHANGED host
ContextMenu ==
  \E target \in Targets, mouseEvent \in Pointers :
    svgHandlers /\ contextmenu(target, mouseEvent)
EnumerateObjectInstances == \E objectName \in ObjectNames : enumerate(objectName)
Tooltip == \E i \in DOMAIN bars, language \in Languages : tooltip(i, language)

NextPane ==
  \/ UpdateLatest
  \/ ContextMenu /\ UNCHANGED << host, options, vm >>
  \/ EnumerateObjectInstances /\ UNCHANGED << host, options, vm >>
  \/ Tooltip /\ UNCHANGED << host, options, vm >>

SpecPane == Init /\ [][NextPane]_vars

(***************************************************************************)
(* Properties of visualTransform, under SpecTransform.                     *)
(***************************************************************************)
Transformed == vm # NotRun

\* The fill a row of the category column carries for colorSelector, if any.
HasRowFill(category, i) ==
  /\ category.objects # None
  /\ i <= Len(category.objects[1])
  /\ category.objects[1][i] # None
RowFill(category, i) == category.objects[1][i][1].colorSelector.fill.solid.color

\* C1: for a category column of length c (carrying its source) and a value
\* column of length v, the view model has max(c, v) data points in column
\* order; point i has the value values[i] and the category `${categories[i]}`,
\* and past the end of a column its entry is undefined.
C1_DataPointsFollowColumns ==
  (Transformed /\ HasColumns(options)) =>
    LET c == CategoryOf(options).values
        v == ValuesOf(options).values
    IN  /\ ~vm.threw
        /\ Len(vm.dataPoints) = IF Len(c) >= Len(v) THEN Len(c) ELSE Len(v)
        /\ \A i \in 1..Len(vm.dataPoints) :
             /\ vm.dataPoints[i].value = IF i <= Len(v) THEN << v[i] >> ELSE <<>>
             /\ vm.dataPoints[i].category = IF i <= Len(c) THEN c[i] ELSE "undefined"

C1_Witness ==
  /\ Transformed
  /\ HasColumns(options)
  /\ CategoryOf(options).values = << "b", "a" >>
  /\ ValuesOf(options).values = << 5 >>
  /\ Len(vm.dataPoints) = 2
  /\ vm.dataPoints[1].category = "b"
  /\ vm.dataPoints[1].value = << 5 >>
  /\ vm.dataPoints[2].value = <<>>

\* C2: with no data view (dataViews missing, no first entry, no categorical
\* part, no categories or no values) the view model is the empty default: no
\* data points, dataMax 0, empty settings, and nothing is raised.
C2_EmptyDefaultWithoutDataView ==
  (Transformed /\ options \in MissingDataOptions) =>
    /\ ~vm.threw
    /\ vm.dataPoints = <<>>
    /\ vm.dataMax = 0
    /\ DOMAIN vm.settings = {}

C2_Witness ==
  /\ Transformed
  /\ options = NoValues
  /\ vm.dataPoints = <<>>
  /\ vm.dataMax = 0

\* C4: in high-contrast mode every data point has stroke width 2, the
\* palette's background as colour and its foreground as stroke colour, and the
\* axis fill and the help link colour are the palette's foreground, whatever
\* the user's overrides.
C4_HighContrastIgnoresOverrides ==
  (Transformed /\ host.colorPalette.isHighContrast) =>
    /\ \A i \in 1..Len(vm.dataPoints) :
         /\ vm.dataPoints[i].strokeWidth = 2
         /\ vm.dataPoints[i].color = host.colorPalette.background
         /\ vm.dataPoints[i].strokeColor = host.colorPalette.foreground
    /\ HasColumns(options) =>
         /\ vm.settings.enableAxis.fill = host.colorPalette.foreground
         /\ vm.settings.generalView.helpLinkColor = host.colorPalette.foreground

C4_Witness ==
  /\ Transformed
  /\ host.colorPalette.isHighContrast
  /\ HasColumns(options)
  /\ ObjectsOf(options) = Some(userSettings)
  /\ Len(vm.dataPoints) = 2
  /\ HasRowFill(CategoryOf(options), 1)
  /\ vm.dataPoints[1].color = "#bg"
  /\ vm.settings.enableAxis.fill = "#fg"

\* C5: outside high-contrast mode the colour of data point i is the
\* colorSelector fill of row i when the row carries one, and the palette's
\* colour for `${categories[i]}` otherwise.
C5_OverrideBeforePalette ==
  (Transformed /\ HasColumns(options) /\ ~host.colorPalette.isHighContrast) =>
    LET category == CategoryOf(options)
    IN  \A i \in 1..Len(vm.dataPoints) :
          vm.dataPoints[i].color =
            IF HasRowFill(category, i)
            THEN RowFill(category, i)
            ELSE "#palette-" \o (IF i <= Len(category.values)
                                 THEN category.values[i] ELSE "undefined")

C5_Witness ==
  /\ Transformed
  /\ HasColumns(options)
  /\ ~host.colorPalette.isHighContrast
  /\ Len(vm.dataPoints) = 2
  /\ HasRowFill(CategoryOf(options), 1)
  /\ ~HasRowFill(CategoryOf(options), 2)
  /\ vm.dataPoints[1].color = userFill
  /\ vm.dataPoints[2].color = "#palette-b"

\* Whether the host's objects override a field of a settings section.
Overrides(objects, section, field) ==
  /\ objects # None
  /\ section \in DOMAIN objects[1]
  /\ field \in DOMAIN objects[1][section]

C18_EmptyListsGiveEmptyViewModel ==
  (Transformed /\ options \in { EmptyCategories, EmptyValues }) =>
    /\ ~vm.threw
    /\ vm.dataPoints = <<>>

(***************************************************************************)
(* Properties of the visual's life, under Spec.                            *)
(***************************************************************************)
\* The selection token of a bar.
TokenOf(node) == node.datum[1].selectionId

\* Whether both opacity styles of a node are the given inline value.
OpacityIs(node, opacity) == node.fillOpacity = opacity /\ node.strokeOpacity = opacity

\* The opacity the selection set S gives a node: none when S is empty, solid
\* when a member of S includes the node's token, transparent otherwise.
HighlightOf(S, node) ==
  IF S = {} THEN None
  ELSE IF \E id \in S : TokenOf(node) \subseteq id THEN Some(100)
  ELSE Some(40)

\* The handlers that end by synchronising the bars with a selection set.
Syncing == { "update", "selectResolved", "clearResolved", "onSelect" }

\* C3: an update whose input data is missing (no data view, no category
\* array, no value array) completes without raising and leaves an empty
\* render: no bar, and the empty list as the instance's data points.
C3_MissingDataRendersEmpty ==
  (last.op = "update" /\ last.arg.missing) =>
    /\ ~last.threw
    /\ bars = <<>>
    /\ barDataPoints = Some(<<>>)

\* C6: after syncSelectionState ran with a non-empty selection set S, every
\* bar whose token a member of S includes has fill and stroke opacity 1, and
\* every other bar has fill and stroke opacity 0.4.
C6_SelectedSolidOthersTransparent ==
  (last.op \in Syncing /\ ~last.threw /\ last.ids # None /\ last.ids # Some({})) =>
    \A i \in DOMAIN bars :
      IF \E id \in last.ids[1] : TokenOf(bars[i]) \subseteq id
      THEN OpacityIs(bars[i], Some(100))
      ELSE OpacityIs(bars[i], Some(40))

C6_Witness ==
  /\ last.op = "selectResolved"
  /\ last.ids = Some({ {"a"} })
  /\ Len(bars) = 2
  /\ TokenOf(bars[1]) = {"a"}
  /\ TokenOf(bars[2]) = {"b"}
  /\ OpacityIs(bars[1], Some(100))
  /\ OpacityIs(bars[2], Some(40))

\* C7: after syncSelectionState ran with the empty selection set, no bar
\* keeps an inline fill-opacity or stroke-opacity.
C7_EmptySelectionClearsOpacity ==
  (last.op \in Syncing /\ ~last.threw /\ last.ids = Some({})) =>
    \A i \in DOMAIN bars : OpacityIs(bars[i], None)

C7_Witness ==
  /\ last.op = "clearResolved"
  /\ Len(bars) = 2
  /\ OpacityIs(bars[1], None)
  /\ OpacityIs(bars[2], None)

\* C9: at the end of an update on data that is not degenerate, the bars'
\* highlighting is that of the host's selection set: bars in the set at 1 and
\* the others at 0.4 when it is not empty, no inline opacity when it is.
C9_UpdateResynchronises ==
  (last.op = "update" /\ ~last.threw) =>
    /\ last.ids = Some(selectionIds)
    /\ \A i \in DOMAIN bars : OpacityIs(bars[i], HighlightOf(selectionIds, bars[i]))

C9_Witness ==
  /\ last.op = "update"
  /\ ~last.threw
  /\ selectionIds = { {"b"} }
  /\ Len(bars) = 2
  /\ TokenOf(bars[1]) = {"a"}
  /\ OpacityIs(bars[1], Some(40))
  /\ OpacityIs(bars[2], Some(100))

\* C10: a click on a bar with interactions allowed issues one select call,
\* with the bar's token and the ctrl key as multi-select flag, and changes no
\* bar; the bars take the highlighting of the set the host returned when the
\* call resolves, and a call rejected or never resolved changes no bar.
C10_ClickWaitsForHost ==
  [][ /\ (last'.op = "barClick" /\ host.allowInteractions) =>
           /\ pending' = Append(pending,
                                [ kind |-> "select",
                                  selectionId |-> TokenOf(bars[last'.arg.bar]),
                                  multiSelect |-> last'.arg.ctrlKey, answer |-> None ])
           /\ bars' = bars
      /\ last'.op = "rejected" => bars' = bars
      /\ last'.op = "selectResolved" =>
           /\ Len(pending') = Len(pending) - 1
           /\ \A i \in DOMAIN bars' :
                /\ TokenOf(bars'[i]) = TokenOf(bars[i])
                /\ OpacityIs(bars'[i], HighlightOf(last'.ids[1], bars[i]))
      /\ bars' # bars => last'.op \in Syncing
    ]_vars

C10_Witness ==
  /\ last.op = "barClick"
  /\ host.allowInteractions
  /\ last.arg = [ bar |-> 2, ctrlKey |-> TRUE ]
  /\ Len(bars) = 2
  /\ pending = << [ kind |-> "select", selectionId |-> TokenOf(bars[2]),
                    multiSelect |-> TRUE, answer |-> None ] >>
  /\ OpacityIs(bars[1], Some(100))
  /\ OpacityIs(bars[2], Some(40))

\* The clear calls among the calls the host has not answered yet.
ClearCalls(q) == { k \in DOMAIN q : q[k].kind = "clear" }

\* C11: with interactions allowed, a click on the svg outside any bar issues
\* one clear call and changes no bar; when the host confirms the call no bar
\* keeps an inline opacity; and a click on a bar issues no clear call.
C11_BackgroundClickClears ==
  [][ /\ (last'.op = "svgClick" /\ host.allowInteractions) =>
           /\ pending' = Append(pending, [ kind |-> "clear", selectionId |-> {},
                                           multiSelect |-> FALSE, answer |-> None ])
           /\ bars' = bars
      /\ last'.op = "clearResolved" =>
           /\ Len(bars') = Len(bars)
           /\ \A i \in DOMAIN bars' : OpacityIs(bars'[i], None)
      /\ last'.op = "barClick" =>
           Cardinality(ClearCalls(pending')) = Cardinality(ClearCalls(pending))
    ]_vars

C11_Witness ==
  /\ last.op = "svgClick"
  /\ host.allowInteractions
  /\ pending = << [ kind |-> "clear", selectionId |-> {}, multiSelect |-> FALSE,
                    answer |-> None ] >>
  /\ Len(bars) = 2
  /\ OpacityIs(bars[1], Some(40))
  /\ OpacityIs(bars[2], Some(100))

(***************************************************************************)
(* Properties of update in the visual's life, under Spec.                  *)
(***************************************************************************)
\* What an instance that has rendered nothing yet shows after update(opts)
\* while the host's selection is ids.
FreshVisible(opts, ids) ==
  LET viewModel == viewModels[opts][host]
      settings == viewModel.settings
  IN  IF viewModel.threw
      THEN [ bars |-> <<>>, chrome |-> InitialChrome ]
      ELSE IF "enableAxis" \notin DOMAIN settings
      THEN [ bars |-> <<>>, chrome |-> [ InitialChrome EXCEPT !.svg = Some(opts.viewport) ] ]
      ELSE LET height == IF settings.enableAxis.show
                         THEN opts.viewport.height - marginBottom
                         ELSE opts.viewport.height
               domain == xDomain([ i \in DOMAIN viewModel.dataPoints |->
                                     viewModel.dataPoints[i].category ])
           IN  [ bars |-> renderBars(<<>>, viewModel, height, ids, domain),
                 chrome |-> renderChrome(viewModel, opts.viewport, height, domain) ]

\* C13: update is idempotent: after update with given options, under a given
\* selection of the host, the bars, the axis, the help link and the table are
\* what update with these options renders on an instance that has rendered
\* nothing, whatever earlier updates rendered (so that a second call with the
\* same options changes nothing).
C13_UpdateIsIdempotent ==
  last.op = "update" =>
    [ bars |-> bars, chrome |-> chrome ] = FreshVisible(last.arg.options, selectionIds)

\* C14: after every update with a category and a value column, the bar
\* container holds one rect per data point of the latest view model, bar i
\* bound to data point i, with its attributes and styles written from it.
C14_OneRectPerDataPoint ==
  (last.op = "update" /\ HasColumns(last.arg.options)) =>
    LET c == CategoryOf(last.arg.options).values
        v == ValuesOf(last.arg.options).values
        dataMax == ValuesOf(last.arg.options).maxLocal
        height == IF barChartSettings[1].enableAxis.show
                  THEN last.arg.options.viewport.height - marginBottom
                  ELSE last.arg.options.viewport.height
    IN  /\ ~last.threw
        /\ Len(bars) = IF Len(c) >= Len(v) THEN Len(c) ELSE Len(v)
        /\ Len(bars) = Len(barDataPoints[1])
        /\ \A i \in DOMAIN bars :
             /\ bars[i].datum = Some(barDataPoints[1][i])
             /\ bars[i].datum[1].category = c[i]
             /\ bars[i].fill = Some(barDataPoints[1][i].color)
             /\ bars[i].strokeWidth = Some(barDataPoints[1][i].strokeWidth)
             /\ bars[i].y = IF i <= Len(v)
                            THEN Some(height - (v[i] * height) \div dataMax)
                            ELSE <<>>
             /\ \A j \in DOMAIN bars : bars[i].x = bars[j].x <=> c[i] = c[j]

C14_Witness ==
  /\ last.op = "update"
  /\ HasColumns(last.arg.options)
  /\ CategoryOf(last.arg.options).values = << "b" >>
  /\ Len(bars) = 1
  /\ bars[1].datum[1].category = "b"
  /\ bars[1].fill = Some("#palette-b")
  /\ pending # <<>>

\* The opacity a node shows: its inline value, or full opacity without one.
EffectiveOpacity(opacity) == IF opacity = None THEN 100 ELSE opacity[1]

\* C15: after an update during which the host's selection is empty, every
\* bar's fill-opacity and stroke-opacity are generalView.opacity / 100.
C15_OpacitySettingShown ==
  (last.op = "update" /\ ~last.threw /\ selectionIds = {}) =>
    \A i \in DOMAIN bars :
      /\ EffectiveOpacity(bars[i].fillOpacity) = barChartSettings[1].generalView.opacity
      /\ EffectiveOpacity(bars[i].strokeOpacity) = barChartSettings[1].generalView.opacity

\* C16: a pending continuation is not cancelled by an update: update leaves
\* the pending calls pending, a continuation that resolves applies its
\* selection set to the bars as the latest update left them, and an update
\* that completes leaves the highlighting of the host's set: whichever of the
\* two ran last wrote the opacities.
C16_NoCancellation ==
  [][ /\ last'.op = "update" => pending' = pending
      /\ last'.op \in { "selectResolved", "clearResolved" } =>
           /\ Len(bars') = Len(bars)
           /\ \A i \in DOMAIN bars' :
                /\ bars'[i].datum = bars[i].datum
                /\ OpacityIs(bars'[i], HighlightOf(last'.ids[1], bars[i]))
      /\ (last'.op = "update" /\ ~last'.threw) =>
           \A i \in DOMAIN bars' :
             OpacityIs(bars'[i], HighlightOf(selectionIds', bars'[i]))
    ]_vars

C16_Witness ==
  /\ last.op = "update"
  /\ ~last.threw
  /\ pending # <<>>
  /\ pending[1].kind = "clear"
  /\ selectionIds = { {"a"} }
  /\ Len(bars) = 2
  /\ OpacityIs(bars[1], Some(100))
  /\ OpacityIs(bars[2], Some(40))

\* C17: while the host does not allow interactions, a click on a bar or on
\* the background issues no select and no clear call and changes no bar.
C17_NoSelectionWithoutInteractions ==
  /\ [](~host.allowInteractions => pending = <<>>)
  /\ [][ (last'.op \in { "barClick", "svgClick" } /\ ~host.allowInteractions) =>
           /\ pending' = pending
           /\ bars' = bars
           /\ selectionIds' = selectionIds
       ]_vars

C17_Witness ==
  /\ last.op = "svgClick"
  /\ ~host.allowInteractions
  /\ pending = <<>>
  /\ Len(bars) = 2
  /\ OpacityIs(bars[1], Some(40))

\* C20: the select callback registered in the constructor, fired before the
\* first update, changes nothing of the visual and raises nothing; and
\* syncSelectionState with a missing bar selection or a missing id list
\* leaves the bars as they are.
C20_CallbackBeforeUpdate ==
  /\ [](/\ \A ids \in SelectionSets : syncSelectionState(None, Some(ids), bars) = bars
        /\ syncSelectionState(barSelection, None, bars) = bars)
  /\ [][ (last'.op = "onSelect" /\ barSelection = None) =>
           /\ ~last'.threw
           /\ UNCHANGED << barDataPoints, barChartSettings, barSelection, bars,
                           chrome, svgHandlers, pending >>
       ]_vars

C20_Witness ==
  /\ last.op = "onSelect"
  /\ barSelection = None
  /\ barDataPoints = None
  /\ bars = <<>>
  /\ selectionIds = { {"a"} }

(***************************************************************************)
(* Properties of the context menu and the format pane, under SpecPane.     *)
(***************************************************************************)
\* C12: a right-click inside the svg calls showContextMenu once, at the
\* pointer's client coordinates, with the selection token of the data point
\* when the target is a bar and with the empty token when it is anything else,
\* the background or a tick or label of the axis.
C12_ContextMenuAtPointer ==
  last.op = "contextmenu" =>
    LET calls == last.arg.showContextMenu
    IN  /\ Len(calls) = 1
        /\ calls[1].position = [ x |-> last.arg.mouseEvent.clientX,
                                 y |-> last.arg.mouseEvent.clientY ]
        /\ calls[1].selectionId =
             IF last.arg.target.kind = "bar"
             THEN Some(TokenOf(bars[last.arg.target.index]))
             ELSE Some({})

\* C19: after any sequence of updates, enumerateObjectInstances for
\* 'colorSelector' returns one instance per data point of the latest update,
\* in order, with the point's category as display name and its colour as
\* fill, and nothing of an earlier update.
C19_ColorSelectorOfLatestUpdate ==
  (last.op = "enumerateObjectInstances" /\ last.arg.objectName = "colorSelector"
     /\ vm # NotRun) =>
    /\ ~last.threw
    /\ Len(last.arg.instances) = Len(vm.dataPoints)
    /\ \A i \in DOMAIN last.arg.instances :
         /\ last.arg.instances[i].displayName = vm.dataPoints[i].category
         /\ last.arg.instances[i].properties.fill.solid.color = vm.dataPoints[i].color

\* C22: for every data point of the view model, the one of a row past the end
\* of the value column included, the tooltip callback raises nothing and
\* returns one item, with the point's category as display name and the
\* point's colour.
C22_TooltipOfEveryDataPoint ==
  last.op = "tooltip" =>
    /\ ~last.threw
    /\ Len(last.arg.items) = 1
    /\ last.arg.items[1].displayName = bars[last.arg.bar].datum[1].category
    /\ last.arg.items[1].color = bars[last.arg.bar].datum[1].color

(***************************************************************************)
(* Properties of clicks whose calls the host all resolves, under           *)
(* SpecResolved.                                                           *)
(***************************************************************************)
\* C21: whatever the interleaving of bar clicks, background clicks, updates
\* and resolutions, in any order, once no call is pending the bars'
\* highlighting is that of the host's selection set: bars in the set at 1 and
\* the others at 0.4 when it is not empty, no inline opacity when it is.
C21_HighlightingMatchesHostAtRest ==
  pending = <<>> =>
    \A i \in DOMAIN bars : OpacityIs(bars[i], HighlightOf(selectionIds, bars[i]))

====
